---- MODULE Spec2Model ----
(***************************************************************************)
(* Model of satpy/readers/viirs_edr.py: the dataset-availability generator *)
(* of VIIRSJRRFileHandler and the valid-range / quality-flag masking of    *)
(* VIIRSSurfaceReflectanceWithVIHandler.                                   *)
(*                                                                         *)
(* Python strings that the code inspects (lower(), substring test,         *)
(* f-string concatenation) are sequences of one-character strings.         *)
(* None / True / False of a yielded availability are the strings "None",   *)
(* "True", "False".  A dict is a record; an absent key is an absent field. *)
(***************************************************************************)
EXTENDS Integers, Sequences, FiniteSets, TLC

VARIABLES
    filetype_info,        \* self.filetype_info["file_type"]
    nc,                   \* self.nc: the file's variables, in file order
    configured_datasets,  \* the argument of available_datasets
    handled_var_names,    \* the local set of available_datasets
    pc,                   \* position of the generator / of the handler
    idx,                  \* next element of the loop the generator is in
    yielded,              \* the pairs yielded so far, in order
    origin,               \* for each yielded pair: index of the configured
                          \* entry whose iteration yielded it, 0 if dynamic
    init_kwargs,          \* keyword arguments given to __init__
    filter_veg,           \* self._filter_veg
    qf,                   \* the three QF variables of the file (M-band)
    data_arr,             \* argument of _mask_invalid: [attrs, values]
    mask_info,            \* argument of _mask_invalid: ds_info
    masked                \* the array _mask_invalid returned

vars == <<filetype_info, nc, configured_datasets, handled_var_names, pc, idx,
          yielded, origin, init_kwargs, filter_veg, qf, data_arr, mask_info,
          masked>>

availVars == <<filetype_info, nc, configured_datasets, handled_var_names,
               idx, yielded, origin>>
maskVars == <<init_kwargs, filter_veg, qf, data_arr, mask_info, masked>>

(***************************************************************************)
(* Bounds and program constants                                            *)
(***************************************************************************)
MaxConfigured == 2

M_COLS == 3200

(***************************************************************************)
(* Python string operations                                                *)
(***************************************************************************)
UpperAlphabet ==
    <<"A","B","C","D","E","F","G","H","I","J","K","L","M",
      "N","O","P","Q","R","S","T","U","V","W","X","Y","Z">>

LowerAlphabet ==
    <<"a","b","c","d","e","f","g","h","i","j","k","l","m",
      "n","o","p","q","r","s","t","u","v","w","x","y","z">>

LowerChar(c) ==
    IF \E k \in 1..26 : UpperAlphabet[k] = c
    THEN LowerAlphabet[CHOOSE k \in 1..26 : UpperAlphabet[k] = c]
    ELSE c

\* str.lower()
Lower(s) == [k \in 1..Len(s) |-> LowerChar(s[k])]

\* needle in s
Contains(needle, s) ==
    \E k \in 0..(Len(s) - Len(needle)) :
        SubSeq(s, k + 1, k + Len(needle)) = needle

S_longitude == <<"l","o","n","g","i","t","u","d","e">>
S_latitude == <<"l","a","t","i","t","u","d","e">>
S_Longitude == <<"L","o","n","g","i","t","u","d","e">>
S_Latitude == <<"L","a","t","i","t","u","d","e">>
S_AOD == <<"A","O","D">>
S_aod == <<"a","o","d">>
S_Smoke == <<"S","m","o","k","e">>
S_lon == <<"l","o","n">>
S_adp == <<"a","d","p">>
S_lst == <<"l","s","t">>
S_us == <<"_">>
S_i_us == <<"i","_">>

Bool2Py(b) == IF b THEN "True" ELSE "False"

(***************************************************************************)
(* VIIRSJRRFileHandler.available_datasets                                  *)
(***************************************************************************)
\* BaseFileHandler.file_type_matches: True when the dataset's file type is
\* the handler's, None otherwise.
file_type_matches(self_ftype, ds_ftype) ==
    IF ds_ftype = self_ftype THEN "True" ELSE "None"

\* Variant of FileKeyOf that ignores file_key: ds_info["name"]
FileKeyOf_NameOnly(ds_info) == ds_info.name

\* ds_info.get("file_key", ds_info["name"])
FileKeyOf(ds_info) ==
    IF "file_key" \in DOMAIN ds_info THEN ds_info.file_key ELSE ds_info.name

\* file_key in self.nc
InNc(file_key, ncv) == \E k \in 1..Len(ncv) : ncv[k].name = file_key

\* Variant of HandledAdd that records the key only after the early yield,
\* i.e. only for entries no earlier handler has claimed
HandledAdd_AfterClaim(handled, is_avail, ds_info) ==
    IF is_avail # "None" THEN handled
    ELSE handled \cup {IF "file_key" \in DOMAIN ds_info
                       THEN ds_info.file_key ELSE ds_info.name}

\* handled_var_names after the iteration for one configured entry
HandledAdd(handled, is_avail, ds_info) == handled \cup {FileKeyOf(ds_info)}

\* Variant of ConfiguredYields whose early yield is not followed by
\* `continue`
ConfiguredYields_NoContinue(self_ftype, ncv, is_avail, ds_info) ==
    (IF is_avail # "None"
     THEN << [is_avail |-> is_avail, ds_info |-> ds_info] >>
     ELSE << >>)
    \o (IF ds_info.file_type # self_ftype
        THEN << [is_avail |-> "None", ds_info |-> ds_info] >>
        ELSE << >>)
    \o << [is_avail |-> Bool2Py(\E k \in 1..Len(ncv) :
                ncv[k].name = (IF "file_key" \in DOMAIN ds_info
                               THEN ds_info.file_key ELSE ds_info.name)),
           ds_info |-> ds_info] >>

\* the pairs one iteration of the loop over configured_datasets yields
ConfiguredYields(self_ftype, ncv, is_avail, ds_info) ==
    IF is_avail # "None"
    THEN << [is_avail |-> is_avail, ds_info |-> ds_info] >>
    ELSE (IF file_type_matches(self_ftype, ds_info.file_type) = "None"
          THEN << [is_avail |-> "None", ds_info |-> ds_info] >>
          ELSE << >>)
         \o << [is_avail |-> Bool2Py(InNc(FileKeyOf(ds_info), ncv)),
                ds_info |-> ds_info] >>

is_lon(var_name) == Contains(S_longitude, Lower(var_name))
is_lat(var_name) == Contains(S_latitude, Lower(var_name))

\* the first `continue` of _dynamic_variables_from_file
SkipHandled(var_name, handled) ==
    var_name \in handled /\ ~(is_lon(var_name) \/ is_lat(var_name))

m_lon_name(ftype) == S_longitude \o S_us \o ftype
m_lat_name(ftype) == S_latitude \o S_us \o ftype
i_lon_name(ftype) == S_longitude \o S_us \o S_i_us \o ftype
i_lat_name(ftype) == S_latitude \o S_us \o S_i_us \o ftype

Resolution(var) == IF var.shape[2] = M_COLS THEN 750 ELSE 375

\* the ds_info _dynamic_variables_from_file builds for a 2D variable
DynamicInfo(ftype, var) ==
    LET res == Resolution(var)
    IN  IF is_lon(var.name)
        THEN [file_key |-> var.name, file_type |-> ftype,
              name |-> IF res = 750 THEN m_lon_name(ftype)
                       ELSE i_lon_name(ftype),
              resolution |-> res,
              standard_name |-> "longitude", units |-> "degrees_east"]
        ELSE IF is_lat(var.name)
        THEN [file_key |-> var.name, file_type |-> ftype,
              name |-> IF res = 750 THEN m_lat_name(ftype)
                       ELSE i_lat_name(ftype),
              resolution |-> res,
              standard_name |-> "latitude", units |-> "degrees_north"]
        ELSE [file_key |-> var.name, file_type |-> ftype,
              name |-> var.name, resolution |-> res,
              coordinates |-> IF res = 750
                              THEN <<m_lon_name(ftype), m_lat_name(ftype)>>
                              ELSE <<i_lon_name(ftype), i_lat_name(ftype)>>]

\* the pairs one iteration of the loop over self.nc.variables yields
DynamicYields(ftype, var, handled) ==
    IF SkipHandled(var.name, handled) THEN << >>
    ELSE IF Len(var.shape) # 2 THEN << >>
    ELSE << [is_avail |-> "True", ds_info |-> DynamicInfo(ftype, var)] >>

(***************************************************************************)
(* Inputs                                                                  *)
(***************************************************************************)
FileTypes == {S_adp, S_lst}

\* Opened files: variables with their shapes, in file order.
Files ==
    { << >>,
      << [name |-> S_AOD, shape |-> <<768, 3200>>],
         [name |-> S_Smoke, shape |-> <<768, 3200>>],
         [name |-> S_Longitude, shape |-> <<768, 3200>>],
         [name |-> S_Latitude, shape |-> <<768, 3200>>] >>,
      << [name |-> S_Longitude, shape |-> <<1536, 6400>>],
         [name |-> S_AOD, shape |-> <<1536, 6400>>],
         [name |-> S_lon, shape |-> <<1536, 6400>>] >>,
      << [name |-> S_Smoke, shape |-> <<768>>],
         [name |-> S_AOD, shape |-> <<4, 768, 3200>>],
         [name |-> S_latitude, shape |-> <<768>>] >>,
      << [name |-> S_latitude, shape |-> <<768, 3200>>],
         [name |-> S_Smoke, shape |-> <<1536, 6400>>] >> }

\* Dataset definitions as the YAML gives them, without file_type.
YamlInfos ==
    { [name |-> S_aod, file_key |-> S_AOD],
      [name |-> S_Smoke],
      [name |-> S_longitude, file_key |-> S_Longitude] }

WithFileType(info, ft) ==
    IF "file_key" \in DOMAIN info
    THEN [name |-> info.name, file_key |-> info.file_key, file_type |-> ft]
    ELSE [name |-> info.name, file_type |-> ft]

ConfiguredEntries ==
    { [is_avail |-> a, ds_info |-> WithFileType(info, ft)] :
        a \in {"None", "True", "False"}, info \in YamlInfos, ft \in FileTypes }

\* configured_datasets: None (read as the empty list) or a list of entries
ConfiguredLists ==
    UNION { [1..n -> ConfiguredEntries] : n \in 0..MaxConfigured }

(***************************************************************************)
(* The generator, one action per loop iteration                            *)
(***************************************************************************)
NoMask == [init_kwargs |-> << >>, filter_veg |-> TRUE, qf |-> << >>, data_arr |-> << >>,
           mask_info |-> << >>, masked |-> << >>]

Init ==
    /\ filetype_info \in FileTypes
    /\ nc \in Files
    /\ configured_datasets \in ConfiguredLists
    /\ handled_var_names = {}
    /\ pc = "configured"
    /\ idx = 1
    /\ yielded = << >>
    /\ origin = << >>
    /\ init_kwargs = NoMask.init_kwargs
    /\ filter_veg = NoMask.filter_veg
    /\ qf = NoMask.qf
    /\ data_arr = NoMask.data_arr
    /\ mask_info = NoMask.mask_info
    /\ masked = NoMask.masked

ConfiguredStep ==
    /\ pc = "configured"
    /\ idx <= Len(configured_datasets)
    /\ LET e == configured_datasets[idx]
           ys == ConfiguredYields(filetype_info, nc, e.is_avail, e.ds_info)
       IN  /\ handled_var_names' =
                  HandledAdd(handled_var_names, e.is_avail, e.ds_info)
           /\ yielded' = yielded \o ys
           /\ origin' = origin \o [k \in 1..Len(ys) |-> idx]
    /\ idx' = idx + 1
    /\ UNCHANGED <<filetype_info, nc, configured_datasets, pc>>
    /\ UNCHANGED maskVars

StartDynamic ==
    /\ pc = "configured"
    /\ idx > Len(configured_datasets)
    /\ pc' = "dynamic"
    /\ idx' = 1
    /\ UNCHANGED <<filetype_info, nc, configured_datasets, handled_var_names,
                   yielded, origin>>
    /\ UNCHANGED maskVars

DynamicStep ==
    /\ pc = "dynamic"
    /\ idx <= Len(nc)
    /\ LET ys == DynamicYields(filetype_info, nc[idx], handled_var_names)
       IN  /\ yielded' = yielded \o ys
           /\ origin' = origin \o [k \in 1..Len(ys) |-> 0]
    /\ idx' = idx + 1
    /\ UNCHANGED <<filetype_info, nc, configured_datasets, handled_var_names,
                   pc>>
    /\ UNCHANGED maskVars

Finish ==
    /\ pc = "dynamic"
    /\ idx > Len(nc)
    /\ pc' = "done"
    /\ UNCHANGED availVars
    /\ UNCHANGED maskVars

Next == ConfiguredStep \/ StartDynamic \/ DynamicStep \/ Finish

Spec == Init /\ [][Next]_vars

(***************************************************************************)
(* Properties of available_datasets                                        *)
(***************************************************************************)
\* the iteration for configured entry i has run
Processed(i) == pc # "configured" \/ i < idx

\* positions of the pairs yielded by the iteration for configured entry i
\* (i = 0: by the dynamic part)
PairsOf(i) == {k \in 1..Len(yielded) : origin[k] = i}

Entries == 1..Len(configured_datasets)

ConfiguredKeys == {FileKeyOf(configured_datasets[i].ds_info) : i \in Entries}

\* C1: an entry an earlier handler already decided (is_avail True or False)
\* is yielded exactly once and unchanged, whatever the file holds and
\* whatever the entry's file_type is.
C1_ClaimedPassThrough ==
    \A i \in Entries :
        (Processed(i) /\ configured_datasets[i].is_avail # "None")
        => /\ Cardinality(PairsOf(i)) = 1
           /\ \A k \in PairsOf(i) : yielded[k] = configured_datasets[i]

C1_Witness ==
    /\ pc = "done"
    /\ \E i \in Entries :
        /\ configured_datasets[i].is_avail = "False"
        /\ configured_datasets[i].ds_info.file_type # filetype_info
        /\ InNc(FileKeyOf(configured_datasets[i].ds_info), nc)
        /\ PairsOf(i) # {}
    /\ \E i \in Entries :
        /\ configured_datasets[i].is_avail = "True"
        /\ configured_datasets[i].ds_info.file_type = filetype_info
        /\ ~InNc(FileKeyOf(configured_datasets[i].ds_info), nc)
        /\ PairsOf(i) # {}

\* C2: an undecided entry (is_avail None) of another file type is yielded
\* exactly once, as (None, ds_info).
C2_OtherFileTypeYieldsNoneOnce ==
    \A i \in Entries :
        (/\ Processed(i)
         /\ configured_datasets[i].is_avail = "None"
         /\ file_type_matches(filetype_info,
                              configured_datasets[i].ds_info.file_type) = "None")
        => /\ Cardinality(PairsOf(i)) = 1
           /\ \A k \in PairsOf(i) :
                yielded[k] = [is_avail |-> "None",
                              ds_info |-> configured_datasets[i].ds_info]

\* C3: every configured entry's file_key (or name) is recorded, claimed by
\* another handler or not, and no dynamic pair has a file_key the
\* configuration covers, except longitude/latitude variables.
C3_NoDynamicDuplicate ==
    /\ \A i \in Entries :
        Processed(i)
        => FileKeyOf(configured_datasets[i].ds_info) \in handled_var_names
    /\ handled_var_names \subseteq ConfiguredKeys
    /\ \A k \in PairsOf(0) :
        yielded[k].ds_info.file_key \in ConfiguredKeys
        => \/ Contains(S_longitude, Lower(yielded[k].ds_info.file_key))
           \/ Contains(S_latitude, Lower(yielded[k].ds_info.file_key))

C3_Witness ==
    /\ pc = "done"
    /\ \E i \in Entries, v \in 1..Len(nc) :
        /\ configured_datasets[i].is_avail # "None"
        /\ nc[v].name = FileKeyOf(configured_datasets[i].ds_info)
        /\ Len(nc[v].shape) = 2
        /\ ~is_lon(nc[v].name) /\ ~is_lat(nc[v].name)
    /\ \E k \in PairsOf(0) : yielded[k].ds_info.file_key \in ConfiguredKeys
    /\ \E k \in PairsOf(0) : yielded[k].ds_info.file_key \notin ConfiguredKeys

\* C7: an undecided entry of this handler's file type is yielded with
\* availability True exactly when its file_key (its name when it has no
\* file_key) is a variable of the file, False otherwise, with its ds_info
\* unchanged; configured pairs come in the order of configured_datasets and
\* before every dynamic pair.
C7_MatchingEntries ==
    /\ \A i \in Entries :
        (/\ Processed(i)
         /\ configured_datasets[i].is_avail = "None"
         /\ file_type_matches(filetype_info,
                              configured_datasets[i].ds_info.file_type) # "None")
        => LET info == configured_datasets[i].ds_info
               key == IF "file_key" \in DOMAIN info
                      THEN info.file_key ELSE info.name
               present == \E v \in 1..Len(nc) : nc[v].name = key
           IN  /\ Cardinality(PairsOf(i)) = 1
               /\ \A k \in PairsOf(i) :
                    /\ yielded[k].ds_info = info
                    /\ yielded[k].is_avail = (IF present THEN "True"
                                              ELSE "False")
    /\ \A k1, k2 \in 1..Len(yielded) :
        k1 < k2 => /\ origin[k1] = 0 => origin[k2] = 0
                   /\ origin[k2] # 0 => origin[k1] <= origin[k2]

C7_Witness ==
    /\ pc = "done"
    /\ \E i, j \in Entries :
        /\ i < j
        /\ configured_datasets[i].is_avail = "None"
        /\ configured_datasets[j].is_avail = "None"
        /\ configured_datasets[i].ds_info.file_type = filetype_info
        /\ configured_datasets[j].ds_info.file_type = filetype_info
        /\ "file_key" \in DOMAIN configured_datasets[i].ds_info
        /\ "file_key" \notin DOMAIN configured_datasets[j].ds_info
        /\ \E k \in PairsOf(i) : yielded[k].is_avail = "True"
        /\ \E k \in PairsOf(j) : yielded[k].is_avail = "False"
    /\ PairsOf(0) # {}

(***************************************************************************)
(* Arrays.  A float is [nan |-> BOOLEAN, v |-> Int]; a 2D array is a       *)
(* sequence of rows.                                                       *)
(***************************************************************************)
NaN == [nan |-> TRUE, v |-> 0]
F(n) == [nan |-> FALSE, v |-> n]

EmptyDict == [k \in {} |-> TRUE]

Rows(a) == Len(a)
Cols(a) == IF Len(a) = 0 THEN 0 ELSE Len(a[1])

\* a.where(cond): a where cond holds, NaN elsewhere
Where(a, cond) ==
    [r \in 1..Rows(a) |->
        [c \in 1..Cols(a) |-> IF cond[r][c] THEN a[r][c] ELSE NaN]]

\* (lo <= a) & (a <= hi); a comparison with NaN is False
InRange(a, lo, hi) ==
    [r \in 1..Rows(a) |->
        [c \in 1..Cols(a) |->
            ~a[r][c].nan /\ lo <= a[r][c].v /\ a[r][c].v <= hi]]

\* a.repeat(2, axis=1).repeat(2, axis=0)
Repeat2(a) ==
    [r \in 1..(2 * Rows(a)) |->
        [c \in 1..(2 * Cols(a)) |-> a[(r + 1) \div 2][(c + 1) \div 2]]]

RECURSIVE BitAnd(_, _)
\* x & y on non-negative integers
BitAnd(x, y) ==
    IF x = 0 \/ y = 0 THEN 0
    ELSE (IF x % 2 = 1 /\ y % 2 = 1 THEN 1 ELSE 0)
         + 2 * BitAnd(x \div 2, y \div 2)

(***************************************************************************)
(* _mask_invalid                                                           *)
(***************************************************************************)
\* the valid_range VIIRSJRRFileHandler._mask_invalid settles on; << >> is
\* None
ValidRange(attrs, ds_info) ==
    LET first == IF "valid_range" \in DOMAIN ds_info THEN ds_info.valid_range
                 ELSE IF "valid_range" \in DOMAIN attrs THEN attrs.valid_range
                 ELSE << >>
    IN  IF "valid_min" \in DOMAIN attrs /\ first = << >>
        THEN <<attrs.valid_min, attrs.valid_max>>
        ELSE first

\* VIIRSJRRFileHandler._mask_invalid
BaseMaskInvalid(arr, ds_info) ==
    LET valid_range == ValidRange(arr.attrs, ds_info)
    IN  IF valid_range # << >>
        THEN [attrs |-> arr.attrs,
              values |-> Where(arr.values,
                               InRange(arr.values, valid_range[1],
                                       valid_range[2]))]
        ELSE arr

\* bad_mask of _get_veg_index_good_mask for one M-band pixel
BadPixel(qf1, qf2, qf7) ==
    LET has_sun_glint == BitAnd(qf1, 192) > 0
        is_cloudy == BitAnd(qf1, 12) > 0
        cloud_quality == BitAnd(qf1, 3) < 2
        has_snow_or_ice == BitAnd(qf2, 32) > 0
        has_cloud_shadow == BitAnd(qf2, 8) > 0
        water_mask == BitAnd(qf2, 7)
        has_water == water_mask <= 2 \/ water_mask = 5
        has_aerosols == BitAnd(qf7, 12) > 8
        adjacent_to_cloud == BitAnd(qf7, 2) > 0
    IN  \/ has_sun_glint \/ is_cloudy \/ cloud_quality
        \/ has_snow_or_ice \/ has_cloud_shadow \/ has_water
        \/ has_aerosols \/ adjacent_to_cloud

\* _get_veg_index_good_mask: the I-band mask of acceptable pixels
GetVegIndexGoodMask(q) ==
    LET bad_mask == [r \in 1..Rows(q.qf1) |->
                        [c \in 1..Cols(q.qf1) |->
                            BadPixel(q.qf1[r][c], q.qf2[r][c], q.qf7[r][c])]]
        bad_mask_iband == Repeat2(bad_mask)
    IN  [r \in 1..Rows(bad_mask_iband) |->
            [c \in 1..Cols(bad_mask_iband) |-> ~bad_mask_iband[r][c]]]

\* Variant of InitFilterVeg whose default is False
InitFilterVeg_DefaultOff(kwargs) ==
    IF "filter_veg" \in DOMAIN kwargs THEN kwargs.filter_veg ELSE FALSE

\* VIIRSSurfaceReflectanceWithVIHandler.__init__: self._filter_veg
InitFilterVeg(kwargs) ==
    IF "filter_veg" \in DOMAIN kwargs THEN kwargs.filter_veg ELSE TRUE

\* VIIRSSurfaceReflectanceWithVIHandler._mask_invalid
VIMaskInvalid(self_filter_veg, q, arr, ds_info) ==
    LET new_data_arr == BaseMaskInvalid(arr, ds_info)
    IN  IF ds_info.file_key \in {"NDVI", "EVI"} /\ self_filter_veg
        THEN [attrs |-> new_data_arr.attrs,
              values |-> Where(new_data_arr.values, GetVegIndexGoodMask(q))]
        ELSE new_data_arr

(***************************************************************************)
(* Inputs of _mask_invalid                                                 *)
(***************************************************************************)
KwargsSet == {EmptyDict, [filter_veg |-> TRUE], [filter_veg |-> FALSE]}

\* (QF1, QF2, QF7) of one M-band pixel: acceptable, moderate aerosol
\* (acceptable), cloudy, sun glint, low cloud-mask quality, snow, arctic
\* water, high aerosol, adjacent to cloud
PixelFlags ==
    { <<2, 3, 0>>, <<3, 4, 8>>, <<6, 3, 0>>, <<66, 3, 0>>, <<1, 3, 0>>,
      <<2, 35, 0>>, <<2, 5, 0>>, <<2, 3, 12>>, <<2, 3, 2>> }

\* the QF variables of a file with one M-band row of two pixels
QfOf(p1, p2) ==
    [qf1 |-> << <<p1[1], p2[1]>> >>,
     qf2 |-> << <<p1[2], p2[2]>> >>,
     qf7 |-> << <<p1[3], p2[3]>> >>]

QfSet == {QfOf(p1, p2) : p1, p2 \in PixelFlags}

\* I-band arrays of two rows of four pixels
ValueSet ==
    { << <<F(5), NaN, F(0), F(12)>>, <<F(1), F(9), F(5), F(5)>> >>,
      << <<F(3), F(4), F(5), F(6)>>, <<F(3), F(4), F(5), F(6)>> >> }

AttrsSet ==
    { EmptyDict,
      [valid_range |-> <<0, 10>>],
      [valid_min |-> 1, valid_max |-> 8],
      [valid_range |-> <<0, 10>>, valid_min |-> 1, valid_max |-> 8] }

MaskInfoSet ==
    { [file_key |-> k] :
        k \in {"NDVI", "EVI", "375m Surface Reflectance Band I1"} }
    \cup
    { [file_key |-> k, valid_range |-> <<2, 9>>] :
        k \in {"NDVI", "EVI", "375m Surface Reflectance Band I1"} }

NoAvail == [filetype_info |-> S_adp, nc |-> << >>,
            configured_datasets |-> << >>]

InitMask ==
    /\ init_kwargs \in KwargsSet
    /\ filter_veg = InitFilterVeg(init_kwargs)
    /\ qf \in QfSet
    /\ data_arr \in {[attrs |-> a, values |-> v] : a \in AttrsSet, v \in ValueSet}
    /\ mask_info \in MaskInfoSet
    /\ masked = << >>
    /\ pc = "get_dataset"
    /\ filetype_info = NoAvail.filetype_info
    /\ nc = NoAvail.nc
    /\ configured_datasets = NoAvail.configured_datasets
    /\ handled_var_names = {}
    /\ idx = 1
    /\ yielded = << >>
    /\ origin = << >>

\* get_dataset's call self._mask_invalid(data_arr, info)
MaskInvalid ==
    /\ pc = "get_dataset"
    /\ masked' = VIMaskInvalid(filter_veg, qf, data_arr, mask_info)
    /\ pc' = "masked"
    /\ UNCHANGED <<init_kwargs, filter_veg, qf, data_arr, mask_info>>
    /\ UNCHANGED availVars

NextMask == MaskInvalid

SpecMask == InitMask /\ [][NextMask]_vars

\* the keyword argument filter_veg as given, True when it is not given
FilterVegRequested ==
    IF "filter_veg" \in DOMAIN init_kwargs THEN init_kwargs.filter_veg
    ELSE TRUE

\* C4: NDVI and EVI are masked by the quality flags unless filter_veg=False
\* was given (the default is True); with filter_veg=False, and for every
\* other file_key whatever filter_veg is, _mask_invalid returns exactly the
\* base handler's valid-range masking.
C4_VegFilter ==
    pc = "masked"
    => LET base == BaseMaskInvalid(data_arr, mask_info)
       IN  IF mask_info.file_key \in {"NDVI", "EVI"} /\ FilterVegRequested
           THEN /\ masked.attrs = base.attrs
                /\ masked.values =
                     Where(base.values, GetVegIndexGoodMask(qf))
           ELSE masked = base

C4_Witness ==
    /\ pc = "masked"
    /\ mask_info.file_key = "EVI"
    /\ "filter_veg" \notin DOMAIN init_kwargs
    /\ masked # BaseMaskInvalid(data_arr, mask_info)
    /\ \E r \in 1..2, c \in 1..4 : ~masked.values[r][c].nan

====
